---- MODULE Spec2Model ----
(***************************************************************************)
(* hypothesis-graphql: strategies for GraphQL queries.                     *)
(*                                                                         *)
(* A strategy is modelled by what it can do when it is drawn from: the set *)
(* of its outcomes.  An outcome is either a value or an exception raised   *)
(* while drawing.  A Python function that builds a strategy either returns *)
(* one or raises while building; both are kept apart, since                *)
(* `flatmap` defers the call of its argument to the draw.                  *)
(***************************************************************************)
EXTENDS Integers, Sequences, FiniteSets, TLC

\* Longest list `st.lists(...)` is let to produce for a ListValueNode.
MaxListLen == 2
\* Longest `fields` argument handed to query().
MaxFieldsLen == 2

(***************************************************************************)
(* The schema graph (graphql-core objects, read only).                     *)
(* A type reference is its chain of wrappers, outermost first, and the     *)
(* named type the chain ends in.                                           *)
(***************************************************************************)
Named(n) == [mods |-> <<>>, leaf |-> n]
NonNull(t) == [mods |-> <<"NonNull">> \o t.mods, leaf |-> t.leaf]
ListOf(t) == [mods |-> <<"List">> \o t.mods, leaf |-> t.leaf]

\* GraphQLField / GraphQLArgument / GraphQLInputField: name, type, args.
FieldDef(name, type, args) == [name |-> name, type |-> type, args |-> args]
ArgDef(name, type) == [name |-> name, type |-> type, args |-> <<>>]

\* Named types: kind, fields (declaration order), union members, enum values.
ObjectType(fields) == [kind |-> "Object", fields |-> fields, types |-> <<>>, values |-> <<>>]
InterfaceType(fields) == [kind |-> "Interface", fields |-> fields, types |-> <<>>, values |-> <<>>]
UnionType(types) == [kind |-> "Union", fields |-> <<>>, types |-> types, values |-> <<>>]
InputObjectType(fields) == [kind |-> "InputObject", fields |-> fields, types |-> <<>>, values |-> <<>>]
EnumType(values) == [kind |-> "Enum", fields |-> <<>>, types |-> <<>>, values |-> values]
ScalarType == [kind |-> "Scalar", fields |-> <<>>, types |-> <<>>, values |-> <<>>]

BuiltinScalars == {"Int", "Float", "String", "ID", "Boolean"}
Builtins == [n \in BuiltinScalars |-> ScalarType]

\* type Book { title: String }  type Author { name: String }
\* type Query { getBooks: [Book]  getAuthors: [Author] }
SimpleSchema ==
  [query_type |-> "Query",
   types |-> Builtins @@
     [Book |-> ObjectType(<<FieldDef("title", Named("String"), <<>>)>>),
      Author |-> ObjectType(<<FieldDef("name", Named("String"), <<>>)>>),
      Query |-> ObjectType(<<FieldDef("getBooks", ListOf(Named("Book")), <<>>),
                             FieldDef("getAuthors", ListOf(Named("Author")), <<>>)>>)]]

\* type Author { name: String }      (no Query type)
MissingQuerySchema ==
  [query_type |-> "",
   types |-> Builtins @@
     [Author |-> ObjectType(<<FieldDef("name", Named("String"), <<>>)>>)]]

\* interface Node { id: ID }  type Model implements Node { id: ID  name: String }
\* type Query { getModel: Node }
InterfaceSchema ==
  [query_type |-> "Query",
   types |-> Builtins @@
     [Node |-> InterfaceType(<<FieldDef("id", Named("ID"), <<>>)>>),
      Model |-> ObjectType(<<FieldDef("id", Named("ID"), <<>>),
                             FieldDef("name", Named("String"), <<>>)>>),
      Query |-> ObjectType(<<FieldDef("getModel", Named("Node"), <<>>)>>)]]

\* interface Alone { id: ID }  type Query { getModel: Alone  ping: Int }
AloneSchema ==
  [query_type |-> "Query",
   types |-> Builtins @@
     [Alone |-> InterfaceType(<<FieldDef("id", Named("ID"), <<>>)>>),
      Query |-> ObjectType(<<FieldDef("getModel", Named("Alone"), <<>>),
                             FieldDef("ping", Named("Int"), <<>>)>>)]]

\* interface Conflict { id: ID }
\* type FloatModel implements Conflict { id: ID, query: Float! }
\* type StringModel implements Conflict { id: ID, query: String! }
\* type Query { getData: Conflict }
ConflictInterfaceSchema ==
  [query_type |-> "Query",
   types |-> Builtins @@
     [Conflict |-> InterfaceType(<<FieldDef("id", Named("ID"), <<>>)>>),
      FloatModel |-> ObjectType(<<FieldDef("id", Named("ID"), <<>>),
                                  FieldDef("query", NonNull(Named("Float")), <<>>)>>),
      StringModel |-> ObjectType(<<FieldDef("id", Named("ID"), <<>>),
                                   FieldDef("query", NonNull(Named("String")), <<>>)>>),
      Query |-> ObjectType(<<FieldDef("getData", Named("Conflict"), <<>>)>>)]]

\* type FloatModel { query: Float! }  type StringModel { query: String! }
\* union Conflict = FloatModel | StringModel
\* type Query { getData: Conflict }
ConflictUnionSchema ==
  [query_type |-> "Query",
   types |-> Builtins @@
     [Conflict |-> UnionType(<<"FloatModel", "StringModel">>),
      FloatModel |-> ObjectType(<<FieldDef("query", NonNull(Named("Float")), <<>>)>>),
      StringModel |-> ObjectType(<<FieldDef("query", NonNull(Named("String")), <<>>)>>),
      Query |-> ObjectType(<<FieldDef("getData", Named("Conflict"), <<>>)>>)]]

\* scalar Date  type Object { created: Date }  type Query { getObjects: [Object] }
CustomOutputSchema ==
  [query_type |-> "Query",
   types |-> Builtins @@
     [Date |-> ScalarType,
      Object |-> ObjectType(<<FieldDef("created", Named("Date"), <<>>)>>),
      Query |-> ObjectType(<<FieldDef("getObjects", ListOf(Named("Object")), <<>>)>>)]]

\* scalar Date  type Object { created: Date }
\* type Query { getByDate(created: Date): Object
\*              getRange(since: Date, limit: Int!, days: [Date!], flag: Boolean): Object }
CustomNullableSchema ==
  [query_type |-> "Query",
   types |-> Builtins @@
     [Date |-> ScalarType,
      Object |-> ObjectType(<<FieldDef("created", Named("Date"), <<>>)>>),
      Query |-> ObjectType(
        <<FieldDef("getByDate", Named("Object"), <<ArgDef("created", Named("Date"))>>),
          FieldDef("getRange", Named("Object"),
                   <<ArgDef("since", Named("Date")),
                     ArgDef("limit", NonNull(Named("Int"))),
                     ArgDef("days", ListOf(NonNull(Named("Date")))),
                     ArgDef("flag", Named("Boolean"))>>)>>)]]

\* scalar Date  type Object { created: Date }
\* type Query { getByDate(created: Date!): Object }
CustomRequiredSchema ==
  [query_type |-> "Query",
   types |-> Builtins @@
     [Date |-> ScalarType,
      Object |-> ObjectType(<<FieldDef("created", Named("Date"), <<>>)>>),
      Query |-> ObjectType(
        <<FieldDef("getByDate", Named("Object"),
                   <<ArgDef("created", NonNull(Named("Date")))>>)>>)]]

\* scalar Date  type Query { a: Int  b(d: Date!): Int  c(ds: [Date]!): Int }
MixedSchema ==
  [query_type |-> "Query",
   types |-> Builtins @@
     [Date |-> ScalarType,
      Query |-> ObjectType(
        <<FieldDef("a", Named("Int"), <<>>),
          FieldDef("b", Named("Int"), <<ArgDef("d", NonNull(Named("Date")))>>),
          FieldDef("c", Named("Int"), <<ArgDef("ds", NonNull(ListOf(Named("Date"))))>>)>>)]]

\* input RequiredInput { a: Int!  b: Int }  type Model { name: String }
\* type Query { getModel(contains: RequiredInput): Model }
ArgumentsSchema ==
  [query_type |-> "Query",
   types |-> Builtins @@
     [RequiredInput |-> InputObjectType(<<ArgDef("a", NonNull(Named("Int"))),
                                          ArgDef("b", Named("Int"))>>),
      Model |-> ObjectType(<<FieldDef("name", Named("String"), <<>>)>>),
      Query |-> ObjectType(
        <<FieldDef("getModel", Named("Model"),
                   <<ArgDef("contains", Named("RequiredInput"))>>)>>)]]

\* input RequiredInput { a: Int!  b: Int }  type Model { name: String }
\* type Query { getModel(contains: RequiredInput!): Model }
RequiredArgumentsSchema ==
  [query_type |-> "Query",
   types |-> Builtins @@
     [RequiredInput |-> InputObjectType(<<ArgDef("a", NonNull(Named("Int"))),
                                          ArgDef("b", Named("Int"))>>),
      Model |-> ObjectType(<<FieldDef("name", Named("String"), <<>>)>>),
      Query |-> ObjectType(
        <<FieldDef("getModel", Named("Model"),
                   <<ArgDef("contains", NonNull(Named("RequiredInput")))>>)>>)]]

\* input RequiredInput { a: Int!  b: Int }  input NestedInput { inner: RequiredInput! }
\* type Query { getNested(contains: NestedInput!): Int }
NestedSchema ==
  [query_type |-> "Query",
   types |-> Builtins @@
     [RequiredInput |-> InputObjectType(<<ArgDef("a", NonNull(Named("Int"))),
                                          ArgDef("b", Named("Int"))>>),
      NestedInput |-> InputObjectType(<<ArgDef("inner", NonNull(Named("RequiredInput")))>>),
      Query |-> ObjectType(
        <<FieldDef("getNested", Named("Int"),
                   <<ArgDef("contains", NonNull(Named("NestedInput")))>>)>>)]]

\* enum Color { RED GREEN }
\* type Query { paint(color: Color, contain: [Boolean!]): Int }
ValuesSchema ==
  [query_type |-> "Query",
   types |-> Builtins @@
     [Color |-> EnumType(<<"RED", "GREEN">>),
      Query |-> ObjectType(
        <<FieldDef("paint", Named("Int"),
                   <<ArgDef("color", Named("Color")),
                     ArgDef("contain", ListOf(NonNull(Named("Boolean"))))>>)>>)]]

\* type Query { find(id: ID, ratio: Float!, title: String!, ids: [Int]!): Int }
ScalarsSchema ==
  [query_type |-> "Query",
   types |-> Builtins @@
     [Query |-> ObjectType(
        <<FieldDef("find", Named("Int"),
                   <<ArgDef("id", Named("ID")),
                     ArgDef("ratio", NonNull(Named("Float"))),
                     ArgDef("title", NonNull(Named("String"))),
                     ArgDef("ids", NonNull(ListOf(Named("Int"))))>>)>>)]]

\* scalar Date  input Filter { when: Date  limit: Int }
\* type Query { search(filter: Filter): Int }
InputCustomSchema ==
  [query_type |-> "Query",
   types |-> Builtins @@
     [Date |-> ScalarType,
      Filter |-> InputObjectType(<<ArgDef("when", Named("Date")),
                                   ArgDef("limit", Named("Int"))>>),
      Query |-> ObjectType(
        <<FieldDef("search", Named("Int"), <<ArgDef("filter", Named("Filter"))>>)>>)]]

Schemas ==
  [simple |-> SimpleSchema, missing |-> MissingQuerySchema,
   interface |-> InterfaceSchema, alone |-> AloneSchema,
   conflict_interface |-> ConflictInterfaceSchema,
   conflict_union |-> ConflictUnionSchema,
   custom_output |-> CustomOutputSchema,
   custom_nullable |-> CustomNullableSchema,
   custom_required |-> CustomRequiredSchema,
   mixed |-> MixedSchema, arguments |-> ArgumentsSchema,
   required_arguments |-> RequiredArgumentsSchema, nested |-> NestedSchema,
   values |-> ValuesSchema, scalars |-> ScalarsSchema,
   input_custom |-> InputCustomSchema]

SchemaNames == DOMAIN Schemas

\* Names a caller may pass in `fields`.
FieldNamePool == {"getBooks", "getAuthors", "wrong"}

(***************************************************************************)
(* AST nodes.  Every node is one record shape:                             *)
(*   kind, name, value, arguments, isNone, items                           *)
(* A FieldNode's and an InlineFragmentNode's selection_set is kept in      *)
(* isNone/items: isNone is `selections is None`, items the selections.     *)
(* A ListValueNode keeps `values`, an ObjectValueNode `fields` there.      *)
(***************************************************************************)
Node(kind, name, value, arguments, isNone, items) ==
  [kind |-> kind, name |-> name, value |-> value, arguments |-> arguments,
   isNone |-> isNone, items |-> items]

NoneNode == Node("None", "", "", <<>>, TRUE, <<>>)

\* Outcomes of a draw: a value (a node, or a list of nodes that may be None)
\* or an exception.
Ok(v) == [raises |-> "", isNone |-> FALSE, val |-> v]
OkNone == [raises |-> "", isNone |-> TRUE, val |-> <<>>]
Raise(msg) == [raises |-> msg, isNone |-> TRUE, val |-> <<>>]
Values(draws) == {d \in draws : d.raises = ""}
Failures(draws) == {d \in draws : d.raises # ""}

\* What a builder hands back: a strategy (its outcomes), or it raised.
Strategy(draws) == [raises |-> "", draws |-> draws]
Raised(msg) == [raises |-> msg, draws |-> {}]

CustomScalarError == "Custom scalar types are not supported"
NonNullableCustomScalarError == "Non-nullable custom scalar types are not supported as arguments"


(***************************************************************************)
(* Hypothesis combinators, by their outcomes.                              *)
(***************************************************************************)
\* st.tuples(*strategies).map(list): one draw of each, in order; the first
\* draw that raises ends the whole draw.
RECURSIVE tuples(_)
tuples(strategies) ==
  IF strategies = <<>> THEN {Ok(<<>>)}
  ELSE LET rest == tuples(Tail(strategies)) IN
       {Raise(h.raises) : h \in Failures(strategies[1])} \cup
       {IF t.raises # "" THEN t ELSE Ok(<<h.val>> \o t.val) :
          h \in Values(strategies[1]), t \in rest}

\* st.lists(elements): lists of at most n draws of `elements`.
RECURSIVE lists_of(_, _)
lists_of(elements, n) ==
  IF n = 0 THEN {Ok(<<>>)}
  ELSE LET shorter == lists_of(elements, n - 1) IN
       shorter \cup
       {IF h.raises # "" THEN Raise(h.raises) ELSE Ok(t.val \o <<h.val>>) :
          t \in {s \in Values(shorter) : Len(s.val) = n - 1}, h \in elements}

\* st.lists(st.sampled_from(items), min_size=1, unique_by=key): the non-empty
\* lists of distinct items, in any order.
unique_lists(items) ==
  {l \in UNION {[1..n -> items] : n \in 1..Cardinality(items)} :
     \A i, j \in DOMAIN l : i # j => l[i] # l[j]}

Range(seq) == {seq[i] : i \in DOMAIN seq}

\* st.builds(cls, x=strategy) and strategy.map(f): nodes[d] is what is made of
\* the value d; the exception of a failed draw passes through.
builds(nodes) ==
  {IF d.raises # "" THEN Raise(d.raises) ELSE Ok(nodes[d]) : d \in DOMAIN nodes}

\* strategy.flatmap(expand): expanded[x] is what expand gave (or raised) for the
\* value x drawn; what it raised is raised by the draw.
flatmap(expanded) ==
  UNION {IF expanded[x].raises # "" THEN {Raise(expanded[x].raises)}
         ELSE expanded[x].draws : x \in DOMAIN expanded}

\* st.tuples(*(strategy(name, field) for name, field in items)).map(list):
\* built[i] is what strategy gave for the i-th item; the strategies are built
\* one by one, and the first builder to raise ends the call.
list_of_nodes(built) ==
  LET failed == {i \in DOMAIN built : built[i].raises # ""}
  IN IF failed # {}
     THEN Raised(built[CHOOSE i \in failed : \A j \in failed : i <= j].raises)
     ELSE Strategy(tuples([i \in DOMAIN built |-> built[i].draws]))

(***************************************************************************)
(* primitives.py                                                           *)
(***************************************************************************)
MAX_INT == 2147483647
MIN_INT == -MAX_INT - 1

\* The values the sampled base strategies are let to produce here.
SampleIntegers == {0, MAX_INT}
SampleFloats == {"0.0"}
SampleTexts == {""}

integers(min_value, max_value) == {v \in SampleIntegers : min_value <= v /\ v <= max_value}

NullValueNode == Node("null_value", "", "", <<>>, TRUE, <<>>)
IntValueNode(value) == Node("int_value", "", value, <<>>, TRUE, <<>>)
FloatValueNode(value) == Node("float_value", "", value, <<>>, TRUE, <<>>)
StringValueNode(value) == Node("string_value", "", value, <<>>, TRUE, <<>>)
BooleanValueNode(value) == Node("boolean_value", "", value, <<>>, TRUE, <<>>)
EnumValueNode(value) == Node("enum_value", "", value, <<>>, TRUE, <<>>)

maybe_null(strategy, nullable) ==
  IF nullable THEN strategy \cup {Ok(NullValueNode)} ELSE strategy

int_(nullable) ==
  maybe_null({Ok(IntValueNode(ToString(v))) : v \in integers(MIN_INT, MAX_INT)}, nullable)

float_(nullable) ==
  maybe_null({Ok(FloatValueNode(v)) : v \in SampleFloats}, nullable)

string(nullable) ==
  maybe_null({Ok(StringValueNode(v)) : v \in SampleTexts}, nullable)

id_(nullable) == string(nullable) \cup int_(nullable)

boolean(nullable) ==
  maybe_null({Ok(BooleanValueNode(ToString(v))) : v \in BOOLEAN}, nullable)

scalar(type_name, nullable) ==
  CASE type_name = "Int" -> Strategy(int_(nullable))
    [] type_name = "Float" -> Strategy(float_(nullable))
    [] type_name = "String" -> Strategy(string(nullable))
    [] type_name = "ID" -> Strategy(id_(nullable))
    [] type_name = "Boolean" -> Strategy(boolean(nullable))
    [] OTHER -> Raised(CustomScalarError)

enum(values, nullable) ==
  Strategy(maybe_null({Ok(EnumValueNode(v)) : v \in Range(values)}, nullable))

(***************************************************************************)
(* queries.py: values of arguments                                         *)
(***************************************************************************)
ListValueNode(values) == Node("list_value", "", "", <<>>, values.isNone, values.val)
ObjectValueNode(fields) == Node("object_value", "", "", <<>>, fields.isNone, fields.val)
ObjectFieldNode(name, value) == Node("object_field", name, "", <<>>, FALSE, <<value>>)
ArgumentNode(name, value) == Node("argument", name, "", <<>>, FALSE, <<value>>)

check_nullable(type_) ==
  IF type_.mods # <<>> /\ type_.mods[1] = "NonNull"
  THEN [type_ |-> [mods |-> Tail(type_.mods), leaf |-> type_.leaf], nullable |-> FALSE]
  ELSE [type_ |-> type_, nullable |-> TRUE]

\* Mutant: min_size=1 forgotten.
subset_of_fields_min0(all_fields) == unique_lists(Range(all_fields)) \cup {<<>>}

\* sorted() fixes the order in which the pairs are tried, not the lists that
\* can be drawn.
subset_of_fields(all_fields) == unique_lists(Range(all_fields))

RECURSIVE value_nodes(_, _), lists(_, _, _), objects(_, _, _)
RECURSIVE object_field_nodes(_, _, _), list_of_object_field_nodes(_, _)

\* lists(), given the strategy of the elements.
list_value_of(elements, nullable) ==
  LET list_value == lists_of(elements.draws, MaxListLen) \cup
                    (IF nullable THEN {OkNone} ELSE {})
  IN IF elements.raises # "" THEN Raised(elements.raises)
     ELSE Strategy(builds([values \in list_value |-> ListValueNode(values)]))

\* objects(), given the outcomes of the flatmap over the subsets of fields.
object_value_of(fields_of_subsets, nullable) ==
  LET fields_value == fields_of_subsets \cup (IF nullable THEN {OkNone} ELSE {})
  IN Strategy(builds([fields \in fields_value |-> ObjectValueNode(fields)]))

\* object_field_nodes(), given the strategy of the value.
object_field_node_of(name, value) ==
  IF value.raises # "" THEN Raised(value.raises)
  ELSE Strategy(builds([d \in value.draws |-> ObjectFieldNode(name, d.val)]))

value_nodes(schema, type) ==
  LET c == check_nullable(type)
      type_ == c.type_
      kind == IF type_.mods # <<>> THEN type_.mods[1] ELSE schema.types[type_.leaf].kind
  IN CASE kind = "Scalar" -> scalar(type_.leaf, c.nullable)
       [] kind = "Enum" -> enum(schema.types[type_.leaf].values, c.nullable)
       [] kind = "List" -> lists(schema, type_, c.nullable)
       [] kind = "InputObject" -> objects(schema, type_, c.nullable)
       [] OTHER -> Raised("Type is not supported.")

lists(schema, type_, nullable) ==
  list_value_of(value_nodes(schema, [mods |-> Tail(type_.mods), leaf |-> type_.leaf]),
                nullable)

objects(schema, type_, nullable) ==
  object_value_of(
    flatmap([items \in subset_of_fields(schema.types[type_.leaf].fields) |->
               list_of_object_field_nodes(schema, items)]),
    nullable)

object_field_nodes(schema, name, field) ==
  object_field_node_of(name, value_nodes(schema, field.type))

list_of_object_field_nodes(schema, items) ==
  list_of_nodes([i \in DOMAIN items |-> object_field_nodes(schema, items[i].name, items[i])])

argument_values(schema, argument) == value_nodes(schema, argument.type)


(***************************************************************************)
(* queries.py: selections                                                  *)
(***************************************************************************)
FieldNode(name, arguments, selection_set) ==
  Node("field", name, "", arguments, selection_set.isNone, selection_set.val)
InlineFragmentNode(type_condition, selection_set) ==
  Node("inline_fragment", type_condition, "", <<>>, selection_set.isNone, selection_set.val)

\* The `fields` argument of query(): None, or a tuple of names.
NoFields == [given |-> FALSE, names |-> <<>>]
Fields(names) == [given |-> TRUE, names |-> names]

IsNonNull(type) == type.mods # <<>> /\ type.mods[1] = "NonNull"

\* Mutant: a failing argument is skipped whether it is required or not.
arguments_of_skipping(kwargs, values) ==
  LET kept == {i \in DOMAIN kwargs : values[i].raises = ""}
      nth(i) == CHOOSE k \in kept : Cardinality({j \in kept : j < k}) = i - 1
      args == [i \in 1..Cardinality(kept) |->
                 builds([d \in values[nth(i)].draws |->
                           ArgumentNode(kwargs[nth(i)].name, d.val)])]
  IN Strategy(tuples(args))

\* Mutant: a failing nullable argument is passed as Null instead of left out.
arguments_of_null(kwargs, values) ==
  LET fatal == {i \in DOMAIN kwargs : values[i].raises # "" /\ IsNonNull(kwargs[i].type)}
      args == [i \in DOMAIN kwargs |->
                 IF values[i].raises # ""
                 THEN {Ok(ArgumentNode(kwargs[i].name, NullValueNode))}
                 ELSE builds([d \in values[i].draws |->
                                ArgumentNode(kwargs[i].name, d.val)])]
  IN IF fatal # {} THEN Raised(NonNullableCustomScalarError)
     ELSE Strategy(tuples(args))

\* The loop of list_of_arguments over the strategies (or TypeErrors) that
\* argument_values gave for kwargs.
arguments_of(kwargs, values) ==
  LET fatal == {i \in DOMAIN kwargs : values[i].raises # "" /\ IsNonNull(kwargs[i].type)}
      kept == {i \in DOMAIN kwargs : values[i].raises = ""}
      \* the i-th argument that is kept
      nth(i) == CHOOSE k \in kept : Cardinality({j \in kept : j < k}) = i - 1
      args == [i \in 1..Cardinality(kept) |->
                 builds([d \in values[nth(i)].draws |->
                           ArgumentNode(kwargs[nth(i)].name, d.val)])]
  IN IF fatal # {} THEN Raised(NonNullableCustomScalarError)
     ELSE Strategy(tuples(args))

list_of_arguments(schema, kwargs) ==
  arguments_of(kwargs, [i \in DOMAIN kwargs |-> argument_values(schema, kwargs[i])])

RECURSIVE _fields(_, _, _), field_nodes(_, _, _), fields_for_type(_, _)
RECURSIVE inline_fragments(_, _), inline_fragment(_, _), lists_of_field_nodes(_, _)

\* Mutant: the restriction to `fields` is dropped.
_fields_unrestricted(schema, object_type, fields) ==
  Strategy(flatmap([items \in subset_of_fields(schema.types[object_type].fields) |->
                      lists_of_field_nodes(schema, items)]))

_fields(schema, object_type, fields) ==
  LET all == schema.types[object_type].fields
      subset == IF fields.given /\ fields.names # <<>>
                THEN SelectSeq(all, LAMBDA f : f.name \in Range(fields.names))
                ELSE all
  IN Strategy(flatmap([items \in subset_of_fields(subset) |->
                         lists_of_field_nodes(schema, items)]))

\* st.builds(FieldNode, arguments=..., selection_set=st.builds(...)): the
\* arguments are drawn first.
field_node_of(name, arguments, selections) ==
  IF arguments.raises # "" THEN Raised(arguments.raises)
  ELSE IF selections.raises # "" THEN Raised(selections.raises)
  ELSE Strategy(
    {Raise(a.raises) : a \in Failures(arguments.draws)} \cup
    {IF s.raises # "" THEN Raise(s.raises) ELSE Ok(FieldNode(name, a.val, s)) :
       a \in Values(arguments.draws), s \in selections.draws})

field_nodes(schema, name, field) ==
  field_node_of(name, list_of_arguments(schema, field.args), fields_for_type(schema, field))

\* Mutant: the type of an output field must be a scalar with a literal.
fields_for_type_strict(schema, field) ==
  LET type_ == schema.types[field.type.leaf] IN
  CASE type_.kind = "Object" -> _fields(schema, field.type.leaf, NoFields)
    [] type_.kind = "Union" ->
         Strategy(flatmap([items \in unique_lists(Range(type_.types)) |->
                             inline_fragments(schema, items)]))
    [] type_.kind = "Scalar" /\ field.type.leaf \notin BuiltinScalars ->
         Raised(CustomScalarError)
    [] OTHER -> Strategy({OkNone})

fields_for_type(schema, field) ==
  LET type_ == schema.types[field.type.leaf] IN
  CASE type_.kind = "Object" -> _fields(schema, field.type.leaf, NoFields)
    [] type_.kind = "Union" ->
         Strategy(flatmap([items \in unique_lists(Range(type_.types)) |->
                             inline_fragments(schema, items)]))
    [] OTHER -> Strategy({OkNone})

inline_fragments(schema, items) ==
  Strategy(tuples([i \in DOMAIN items |-> inline_fragment(schema, items[i]).draws]))

\* inline_fragment(), given the strategy of the selections.
inline_fragment_of(type_, selections) ==
  IF selections.raises # "" THEN Raised(selections.raises)
  ELSE Strategy(builds([d \in selections.draws |-> InlineFragmentNode(type_, d)]))

inline_fragment(schema, type_) ==
  inline_fragment_of(type_, _fields(schema, type_, NoFields))

lists_of_field_nodes(schema, items) ==
  list_of_nodes([i \in DOMAIN items |-> field_nodes(schema, items[i].name, items[i])])

(***************************************************************************)
(* queries.py: documents                                                   *)
(***************************************************************************)
make_query(selections) ==
  Node("document", "", "", <<>>, FALSE,
       <<Node("operation_definition", "", "query", <<>>, FALSE, selections)>>)

\* graphql.print_ast, as the tokens of the text it prints.
RECURSIVE join(_, _)
join(strings, separator) ==
  IF strings = <<>> THEN <<>>
  ELSE IF Len(strings) = 1 THEN strings[1]
  ELSE strings[1] \o separator \o join(Tail(strings), separator)

wrap(start, middle, end) == IF middle = <<>> THEN <<>> ELSE start \o middle \o end

RECURSIVE print_ast(_)
print_ast(node) ==
  LET items == [i \in DOMAIN node.items |-> print_ast(node.items[i])]
      block == wrap(<<"{">>, join(items, <<>>), <<"}">>)
  IN CASE node.kind = "document" -> join(items, <<>>)
       [] node.kind = "operation_definition" -> block
       [] node.kind = "field" ->
            <<node.name>>
            \o wrap(<<"(">>, join([i \in DOMAIN node.arguments |->
                                     print_ast(node.arguments[i])], <<",">>), <<")">>)
            \o block
       [] node.kind = "inline_fragment" -> <<"...", "on", node.name>> \o block
       [] node.kind \in {"argument", "object_field"} -> <<node.name, ":">> \o items[1]
       [] node.kind \in {"int_value", "float_value", "enum_value"} -> <<node.value>>
       [] node.kind = "string_value" -> <<"\"" \o node.value \o "\"">>
       [] node.kind = "boolean_value" -> <<IF node.value = "TRUE" THEN "true" ELSE "false">>
       [] node.kind = "null_value" -> <<"null">>
       [] node.kind = "list_value" -> <<"[">> \o join(items, <<",">>) \o <<"]">>
       [] node.kind = "object_value" -> <<"{">> \o join(items, <<",">>) \o <<"}">>
       [] OTHER -> <<>>

MissingQueryError == "Query type is not defined in the schema"
\* (the source quotes the word fields in backquotes, which a TLA+ string cannot hold)
EmptyFieldsError == "If you pass fields, it should not be empty"
UnknownFieldsError(invalid_fields) ==
  <<"Unknown fields: ">> \o join([i \in DOMAIN invalid_fields |-> <<invalid_fields[i]>>], <<", ">>)

\* query(): a ValueError (its message, in pieces) or the strategy of documents.
ValueError(message) == [raises |-> message, draws |-> {}]

\* Mutant: the names in `fields` are not checked against the Query type.
query_unchecked(schema, fields) ==
  IF schema.query_type = "" THEN ValueError(<<MissingQueryError>>)
  ELSE IF fields.given /\ fields.names = <<>> THEN ValueError(<<EmptyFieldsError>>)
  ELSE [raises |-> <<>>,
        draws |-> builds([d \in _fields(schema, schema.query_type, fields).draws |->
                            make_query(d.val)])]

query_(schema, fields) ==
  LET query_type == schema.query_type
      names == {f.name : f \in Range(schema.types[query_type].fields)}
      invalid_fields == SelectSeq(fields.names, LAMBDA field : field \notin names)
  IN IF query_type = "" THEN ValueError(<<MissingQueryError>>)
     ELSE IF fields.given /\ fields.names = <<>> THEN ValueError(<<EmptyFieldsError>>)
     ELSE IF fields.given /\ invalid_fields # <<>>
          THEN ValueError(UnknownFieldsError(invalid_fields))
     ELSE [raises |-> <<>>,
           draws |-> builds([d \in _fields(schema, query_type, fields).draws |->
                               make_query(d.val)])]

(***************************************************************************)
(* A caller: one call of query(), then draws from the strategy it got.     *)
(***************************************************************************)
VARIABLES pc, schema_name, fields_arg, error, document, text

vars == <<pc, schema_name, fields_arg, error, document, text>>

NoError == [type |-> "", message |-> <<>>]

FieldsInputs ==
  {NoFields} \cup
  {Fields(names) : names \in UNION {[1..n -> FieldNamePool] : n \in 0..MaxFieldsLen}}

Init ==
  /\ pc = "start"
  /\ schema_name = ""
  /\ fields_arg = NoFields
  /\ error = NoError
  /\ document = NoneNode
  /\ text = <<>>

Returned(result) ==
  IF result.raises # <<>>
  THEN /\ pc' = "raised"
       /\ error' = [type |-> "ValueError", message |-> result.raises]
  ELSE /\ pc' = "built"
       /\ error' = NoError

\* strategy = query(schema, fields)
Call(name, fields) ==
  /\ pc = "start"
  /\ schema_name' = name
  /\ fields_arg' = fields
  /\ Returned(query_(Schemas[name], fields))
  /\ UNCHANGED <<document, text>>

\* strategy.example(): one more sample; an exception ends the run.
Draw ==
  /\ pc \in {"built", "drawn"}
  /\ \E d \in query_(Schemas[schema_name], fields_arg).draws :
       IF d.raises # ""
       THEN /\ pc' = "failed"
            /\ error' = [type |-> "TypeError", message |-> <<d.raises>>]
            /\ UNCHANGED <<document, text>>
       ELSE /\ pc' = "drawn"
            /\ document' = d.val
            /\ text' = print_ast(d.val)
            /\ UNCHANGED error
  /\ UNCHANGED <<schema_name, fields_arg>>

Next ==
  \/ \E name \in SchemaNames, fields \in FieldsInputs : Call(name, fields)
  \/ Draw

Spec == Init /\ [][Next]_vars


(***************************************************************************)
(* Reading a drawn document against its schema.                            *)
(***************************************************************************)
TheSchema == Schemas[schema_name]
Sampled == pc = "drawn"

FieldDefs(schema, parent, name) ==
  {f \in Range(schema.types[parent].fields) : f.name = name}
TheFieldDef(schema, parent, name) == CHOOSE f \in FieldDefs(schema, parent, name) : TRUE

LeafKind(schema, type) == schema.types[type.leaf].kind
IsCustomScalar(schema, type) ==
  LeafKind(schema, type) = "Scalar" /\ type.leaf \notin BuiltinScalars

\* Every field and inline fragment of a selection list, with the type it is
\* selected on.
RECURSIVE Placed(_, _, _)
Placed(schema, selections, parent) ==
  UNION {LET n == selections[i]
             inner == IF n.kind = "inline_fragment" THEN n.name
                      ELSE IF FieldDefs(schema, parent, n.name) = {} THEN ""
                      ELSE TheFieldDef(schema, parent, n.name).type.leaf
         IN {[parent |-> parent, node |-> n]} \cup
            (IF inner = "" THEN {} ELSE Placed(schema, n.items, inner)) :
         i \in DOMAIN selections}

RootSelections == document.items[1].items
Selections == Placed(TheSchema, RootSelections, TheSchema.query_type)
SelectedFields == {p \in Selections : p.node.kind = "field"}
DefOf(p) == TheFieldDef(TheSchema, p.parent, p.node.name)
HasSelections(node) == ~node.isNone /\ node.items # <<>>
Names(nodes) == {nodes[i].name : i \in DOMAIN nodes}

\* Validation rule "fields on correct type".
FieldsOnCorrectType ==
  \A p \in SelectedFields : FieldDefs(TheSchema, p.parent, p.node.name) # {}

\* Validation rule "scalar leafs": a field of a composite type has a
\* selection set, a field of a scalar or enum type has none.
ScalarLeafs ==
  \A p \in SelectedFields :
    HasSelections(p.node) <=>
      LeafKind(TheSchema, DefOf(p).type) \in {"Object", "Interface", "Union"}

\* Validation rule "overlapping fields can be merged", for the inline
\* fragments of one selection set: the same response name has one type.
FragmentsCanBeMerged ==
  \A p \in SelectedFields :
    \A i, j \in DOMAIN p.node.items :
      LET a == p.node.items[i]
          b == p.node.items[j]
      IN (a.kind = "inline_fragment" /\ b.kind = "inline_fragment") =>
           \A k \in DOMAIN a.items, l \in DOMAIN b.items :
             a.items[k].name = b.items[l].name =>
               TheFieldDef(TheSchema, a.name, a.items[k].name).type =
               TheFieldDef(TheSchema, b.name, b.items[l].name).type

\* Every ObjectValueNode of a value, with the input object type it is for.
RECURSIVE ObjectValues(_, _, _)
ObjectValues(schema, value, type) ==
  LET inner(i) ==
        IF value.kind = "list_value"
        THEN ObjectValues(schema, value.items[i],
               [mods |-> Tail(check_nullable(type).type_.mods), leaf |-> type.leaf])
        ELSE IF FieldDefs(schema, type.leaf, value.items[i].name) = {} THEN {}
        ELSE ObjectValues(schema, value.items[i].items[1],
               TheFieldDef(schema, type.leaf, value.items[i].name).type)
  IN (IF value.kind = "object_value" THEN {[type |-> type.leaf, node |-> value]} ELSE {})
     \cup (IF value.kind \in {"list_value", "object_value"}
           THEN UNION {inner(i) : i \in DOMAIN value.items} ELSE {})

ArgumentObjectValues ==
  UNION {UNION {ObjectValues(TheSchema, p.node.arguments[i].items[1],
                  (CHOOSE a \in Range(DefOf(p).args) :
                     a.name = p.node.arguments[i].name).type) :
                i \in DOMAIN p.node.arguments} :
         p \in SelectedFields}

\* Validation rule "values of correct type", for input objects: the keys are
\* declared and unique, and every required field is there.
ObjectValueIsValid(o) ==
  LET declared == Range(TheSchema.types[o.type].fields)
      keys == o.node.items
  IN /\ \A i \in DOMAIN keys : \E f \in declared : f.name = keys[i].name
     /\ \A i, j \in DOMAIN keys : keys[i].name = keys[j].name => i = j
     /\ \A f \in declared : IsNonNull(f.type) => f.name \in Names(keys)

Validates == FieldsOnCorrectType /\ ScalarLeafs /\ FragmentsCanBeMerged

(***************************************************************************)
(* Claims                                                                  *)
(***************************************************************************)

HasInterfaceRootField ==
  \E f \in Range(TheSchema.types[TheSchema.query_type].fields) :
    LeafKind(TheSchema, f.type) = "Interface"

\* C1: every document drawn for a schema whose Query root has a field of an
\* interface type validates; the interface-typed field always carries a
\* non-empty selection set.
C1_InterfaceFieldHasSelection ==
  (Sampled /\ HasInterfaceRootField) =>
    /\ Validates
    /\ \A p \in SelectedFields :
         LeafKind(TheSchema, DefOf(p).type) = "Interface" => HasSelections(p.node)

\* C2: with member types FloatModel and StringModel that both declare
\* `query` with different result types, no drawn selection set holds two
\* inline fragments selecting the same response name with different types.
C2_NoConflictingFragments ==
  (Sampled /\ schema_name \in {"conflict_union", "conflict_interface"}) =>
    FragmentsCanBeMerged

\* C3: with a non-empty `fields` of existing names, the root selection set of
\* every drawn document holds only fields named in `fields`, at least one, and
\* each at most once.
C3_RootRestrictedToFields ==
  (Sampled /\ fields_arg.given) =>
    /\ RootSelections # <<>>
    /\ \A i \in DOMAIN RootSelections :
         /\ RootSelections[i].kind = "field"
         /\ RootSelections[i].name \in Range(fields_arg.names)
    /\ \A i, j \in DOMAIN RootSelections :
         RootSelections[i].name = RootSelections[j].name => i = j

C3_Witness ==
  /\ Sampled
  /\ schema_name = "simple"
  /\ fields_arg = Fields(<<"getBooks">>)
  /\ Names(RootSelections) = {"getBooks"}
  /\ "getAuthors" \notin Range(text)

RootFieldNames == {f.name : f \in Range(TheSchema.types[TheSchema.query_type].fields)}
NoQueryType == TheSchema.query_type = ""
EmptyFieldsGiven == fields_arg.given /\ fields_arg.names = <<>>
UnknownGiven ==
  IF NoQueryType \/ ~fields_arg.given THEN {}
  ELSE {n \in Range(fields_arg.names) : n \notin RootFieldNames}

\* C4: query() raises a ValueError, before a strategy is returned and before
\* any draw, exactly when the schema has no Query type, `fields` is given but
\* empty, or `fields` names a field the Query type does not have; the message
\* of the last names every unknown field and differs from that of the empty
\* case.
C4_ConfigurationErrors ==
  pc # "start" =>
    /\ (error.type = "ValueError") <=> (NoQueryType \/ EmptyFieldsGiven \/ UnknownGiven # {})
    /\ error.type = "ValueError" => (pc = "raised" /\ document = NoneNode /\ text = <<>>)
    /\ pc = "raised" => error.type = "ValueError"
    /\ NoQueryType => error.message = <<MissingQueryError>>
    /\ (~NoQueryType /\ EmptyFieldsGiven) => error.message = <<EmptyFieldsError>>
    /\ (~NoQueryType /\ UnknownGiven # {}) =>
         /\ error.message[1] = "Unknown fields: "
         /\ error.message # <<EmptyFieldsError>>
         /\ \A n \in UnknownGiven : n \in Range(Tail(error.message))
         /\ \A n \in RootFieldNames : n \notin Range(Tail(error.message))

C4_Witness ==
  /\ pc = "raised"
  /\ schema_name = "simple"
  /\ fields_arg = Fields(<<"wrong", "getBooks">>)
  /\ error = [type |-> "ValueError", message |-> <<"Unknown fields: ", "wrong">>]

\* C5: an unsupported-scalar failure is raised by the call query(schema) that
\* builds the strategy, never by a draw: no schema yields a document on one
\* draw and the failure on another.
C5_FailureRaisedAtConstruction ==
  error.type = "TypeError" => (pc = "raised" /\ document = NoneNode)

HasRequiredCustomScalarArgument(schema, field) ==
  \E a \in Range(field.args) : IsNonNull(a.type) /\ IsCustomScalar(schema, a.type)

\* C6: a field with a NonNull-wrapped argument whose leaf type is a custom
\* scalar cannot be built: the TypeError "Non-nullable custom scalar types are
\* not supported as arguments" reaches the caller, and no drawn document
\* selects that field, with or without the argument.
C6_RequiredCustomScalarArgumentFails ==
  /\ Sampled => \A p \in SelectedFields : ~HasRequiredCustomScalarArgument(TheSchema, DefOf(p))
  /\ (pc # "start" /\ ~NoQueryType /\ ~fields_arg.given /\
      \A f \in Range(TheSchema.types[TheSchema.query_type].fields) :
        HasRequiredCustomScalarArgument(TheSchema, f)) =>
       /\ pc \in {"built", "failed"}
       /\ pc = "failed" =>
            error = [type |-> "TypeError", message |-> <<NonNullableCustomScalarError>>]

C6_Witness ==
  /\ pc = "failed"
  /\ schema_name = "custom_required"
  /\ error = [type |-> "TypeError", message |-> <<NonNullableCustomScalarError>>]
  /\ document = NoneNode

\* C7: a nullable argument whose leaf type is a custom scalar is left out of
\* every call of its field (no value, no Null), and every argument of the
\* field whose type is supported is still there.
C7_NullableCustomScalarArgumentOmitted ==
  Sampled =>
    \A p \in SelectedFields :
      \A a \in Range(DefOf(p).args) :
        IF IsCustomScalar(TheSchema, a.type)
        THEN ~IsNonNull(a.type) => a.name \notin Names(p.node.arguments)
        ELSE Cardinality({i \in DOMAIN p.node.arguments :
                            p.node.arguments[i].name = a.name}) = 1

C7_Witness ==
  /\ Sampled
  /\ schema_name = "custom_nullable"
  /\ \E p \in SelectedFields :
       /\ p.node.name = "getRange"
       /\ Names(p.node.arguments) = {"limit", "flag"}
  /\ \E p \in SelectedFields : p.node.name = "getByDate" /\ p.node.arguments = <<>>

\* C8: a custom scalar that is only the type of an output field raises
\* nothing: documents are drawn, the field is a leaf without nested selection,
\* and where it is the only field of its object type every document holds it.
C8_CustomScalarOutputField ==
  /\ Sampled =>
       /\ \A p \in SelectedFields :
            IsCustomScalar(TheSchema, DefOf(p).type) => p.node.isNone
       /\ \A p \in SelectedFields :
            LET type == DefOf(p).type.leaf
                only == TheSchema.types[type].fields
            IN (LeafKind(TheSchema, DefOf(p).type) = "Object" /\ Len(only) = 1
                /\ IsCustomScalar(TheSchema, only[1].type)) =>
                 /\ Names(p.node.items) = {only[1].name}
                 /\ only[1].name \in Range(text)
  /\ (schema_name = "custom_output" /\ ~fields_arg.given) =>
       /\ pc \in {"built", "drawn"}
       /\ Sampled => text = <<"{", "getObjects", "{", "created", "}", "}">>

C8_Witness ==
  /\ Sampled
  /\ schema_name = "custom_output"
  /\ "created" \in Range(text)

\* C9: a drawn document holds exactly one operation definition, a query; its
\* root selection set is non-empty, and so is every nested selection set:
\* under an object-typed field, the inline fragments under a union-typed
\* field, and the body of every inline fragment.
C9_NoEmptySelectionSet ==
  Sampled =>
    /\ document.kind = "document"
    /\ Len(document.items) = 1
    /\ document.items[1].kind = "operation_definition"
    /\ document.items[1].value = "query"
    /\ ~document.items[1].isNone
    /\ RootSelections # <<>>
    /\ \A p \in Selections :
         /\ ~p.node.isNone => p.node.items # <<>>
         /\ p.node.kind = "inline_fragment" => HasSelections(p.node)
         /\ (p.node.kind = "field" /\
             LeafKind(TheSchema, DefOf(p).type) \in {"Object", "Union"}) =>
              HasSelections(p.node)
         /\ (p.node.kind = "field" /\ LeafKind(TheSchema, DefOf(p).type) = "Union") =>
              \A i \in DOMAIN p.node.items : p.node.items[i].kind = "inline_fragment"

C9_Witness ==
  /\ Sampled
  /\ schema_name = "conflict_union"
  /\ \E p \in Selections : p.node.kind = "inline_fragment" /\ HasSelections(p.node)
  /\ \E p \in SelectedFields : p.node.name = "getData" /\ Len(p.node.items) = 2

\* C10: every Object value drawn for an argument of an input-object type is
\* valid for the type: unique declared keys, and every required field in it.
C10_ObjectValuesValid ==
  Sampled => \A o \in ArgumentObjectValues : ObjectValueIsValid(o)

\* Every reference to an input type in the schema: the arguments of the
\* fields of its object types and the fields of its input object types.
InputTypesOf(schema) ==
  UNION {UNION {{a.type : a \in Range(f.args)} \cup
                (IF schema.types[t].kind = "InputObject" THEN {f.type} ELSE {}) :
                f \in Range(schema.types[t].fields)} :
         t \in DOMAIN schema.types}

\* What the claim asks of the strategy built for an input type.
NullExactlyWhenNullable(type, strategy) ==
  strategy.raises = "" =>
    /\ (Ok(NullValueNode) \in strategy.draws) <=> ~IsNonNull(type)
    /\ \A d \in Values(strategy.draws) :
         d.val.kind \in {"list_value", "object_value"} => ~d.val.isNone

\* C11: for every kind of input type, value_nodes(T) has the Null value node
\* among its samples exactly when T is not wrapped in NonNull; a nullable list
\* or input object is Null or the built value, never a list or object node
\* without content.
C11_NullExactlyWhenNullable ==
  pc = "built" =>
    \A type \in InputTypesOf(TheSchema) :
      NullExactlyWhenNullable(type, value_nodes(TheSchema, type))

====
